---------------------------- MODULE Spec2Model ----------------------------
(***************************************************************************)
(* Model of the flash heap allocator (flashheap.c) of mmculib, driven      *)
(* through a RAM backed storage device (ram_msd.c).                        *)
(*                                                                         *)
(* The device is a byte array.  A packet header is one flashheap_size_t,   *)
(* a signed 16 bit integer stored little endian (the targets of the        *)
(* library are little endian), so a header write that straddles a packet   *)
(* boundary is modelled byte by byte.  Addresses are wide enough not to    *)
(* overflow for the magnitudes a 16 bit header can hold.                   *)
(***************************************************************************)
EXTENDS Integers, Sequences, FiniteSets, TLC

(***************************************************************************)
(* Bounds of the model.                                                    *)
(***************************************************************************)
\* heap->offset: first address of the region (must not be zero)
HeapOffset == 2
\* heap->size: length of the region in bytes
HeapSize == 10
\* bytes of the device that lie behind the region
Slack == 4

\* number of heap calls a behaviour makes
MaxCalls == 5
\* number of heap calls a behaviour of the deep search makes
MaxDeepCalls == 6
\* number of heap calls a behaviour makes when it also iterates
MaxQueryCalls == 4
\* number of heap calls a behaviour makes on a device that can fault
MaxFaultCalls == 4
\* number of heap calls a behaviour makes when only free can fault
MaxFreeFaultCalls == 3
\* the last transfer of a call on which the device can be made to fault
MaxFault == 4
\* length of the region whose content is arbitrary when a scan starts
ScanSize == 5

\* sizeof (flashheap_packet_t)
HeaderSize == 2

(***************************************************************************)
(* State.                                                                  *)
(***************************************************************************)
VARIABLES
    heap,     \* heap->offset and heap->size, as flashheap_init has set them
    mem,      \* the bytes of the device
    last,     \* heap->last
    erased,   \* a flashheap_erase has succeeded
    op,       \* the call made last: name, argument, result, transfers
    pre,      \* the device, heap->last and the live packets before that call
    calls,    \* number of calls made so far
    trip,     \* progress of the sequence erase, alloc(size), free(p)
    live,     \* the packets alloc has returned and free has not released
    scan      \* the locals of the call whose loop is being stepped through

vars == << heap, mem, last, erased, op, pre, calls, trip, live, scan >>

\* RAM_MSD_BYTES: the device holds the addresses 0 .. RAM_MSD_BYTES - 1
RAM_MSD_BYTES == heap.offset + heap.size + Slack

\* values a byte of an unwritten device can hold: zeroed RAM, erased flash
FillBytes == {0, 255}

\* arguments the callers pass: sizes up to one more than the largest packet,
\* the null pointer and the addresses of the region up to its end
AllocSizes == 0 .. (heap.size - HeaderSize + 1)
Ptrs == {0} \cup (heap.offset .. (heap.offset + heap.size))

(***************************************************************************)
(* Integer conversions of the C code.                                      *)
(***************************************************************************)
abs(x) == IF x < 0 THEN -x ELSE x

\* conversion of an integer to flashheap_size_t (two's complement, 16 bit)
ToSize(x) ==
    LET u == x % 65536
    IN  IF u >= 32768 THEN u - 65536 ELSE u

\* the two bytes of a header, low byte first
LoByte(v) == (v % 65536) % 256
HiByte(v) == (v % 65536) \div 256

\* the header held by two consecutive bytes
Decode(lo, hi) == ToSize(lo + 256 * hi)

(***************************************************************************)
(* Storage device (ram_msd.c).  A transfer that does not fit the device    *)
(* transfers nothing.  f is the ordinal, within one heap call, of the      *)
(* transfer on which the device faults (0: the device never faults); k is  *)
(* the ordinal of this transfer.                                           *)
(***************************************************************************)
ram_msd_read(m, addr, k, f) ==
    IF k = f \/ addr + HeaderSize > RAM_MSD_BYTES
    THEN [n |-> 0, size |-> 0]
    ELSE [n |-> HeaderSize, size |-> Decode(m[addr], m[addr + 1])]

ram_msd_write(m, addr, v, k, f) ==
    IF k = f \/ addr + HeaderSize > RAM_MSD_BYTES
    THEN [n |-> 0, mem |-> m]
    ELSE [n |-> HeaderSize,
          mem |-> [m EXCEPT ![addr] = LoByte(v), ![addr + 1] = HiByte(v)]]

\* entries of the log of the device transfers of one call
RdLog(addr, r) == [op |-> "read", addr |-> addr, size |-> r.size,
                   ok |-> (r.n = HeaderSize)]
WrLog(addr, v, w) == [op |-> "write", addr |-> addr, size |-> v,
                      ok |-> (w.n = HeaderSize)]

(***************************************************************************)
(* Packet codec.                                                           *)
(***************************************************************************)
flashheap_packet_read(m, addr, k, f) ==
    LET r == ram_msd_read(m, addr, k, f)
    IN  [ok |-> (r.n = HeaderSize), size |-> r.size, raw |-> r]

(***************************************************************************)
(* flashheap_erase                                                         *)
(***************************************************************************)
flashheap_erase(m, f) ==
    LET size == ToSize(-(heap.size - HeaderSize))
        w == ram_msd_write(m, heap.offset, size, 1, f)
    IN  [ret |-> IF w.n # HeaderSize THEN 0 ELSE 1,
         mem |-> w.mem,
         log |-> << WrLog(heap.offset, size, w) >>]

(***************************************************************************)
(* flashheap_alloc                                                         *)
(***************************************************************************)
\* variant: a packet that fits exactly is passed over
alloc_fits_strict(psize, size) == psize < 0 /\ size < -psize

\* variant: any free packet is taken, whatever its capacity
alloc_fits_any(psize, size) == psize < 0

\* the test that selects the packet with header psize for a request of size
alloc_fits(psize, size) == psize < 0 /\ size <= -psize

\* variant: the remainder keeps the bytes of its own header as payload
alloc_new_size_whole(psize, size) == ToSize(-((-psize) - size))

\* the header of the remainder of a split
alloc_new_size(psize, size) == ToSize(-((-psize) - size - HeaderSize))

\* the body of the if statement that takes the free packet at addr
alloc_take(m, lst, size, f, addr, psize, log) ==
    LET new_addr == addr + HeaderSize + size
        new_size == alloc_new_size(psize, size)
        split == (size # -psize)
        w1 == IF split
              THEN ram_msd_write(m, new_addr, new_size, Len(log) + 1, f)
              ELSE [n |-> HeaderSize, mem |-> m]
        log1 == IF split THEN Append(log, WrLog(new_addr, new_size, w1))
                ELSE log
        w2 == ram_msd_write(w1.mem, addr, size, Len(log1) + 1, f)
        log2 == Append(log1, WrLog(addr, size, w2))
    IN  IF w1.n # HeaderSize
        THEN [ret |-> 0, mem |-> w1.mem, last |-> lst, log |-> log1]
        ELSE IF w2.n # HeaderSize
        THEN [ret |-> 0, mem |-> w2.mem, last |-> lst, log |-> log2]
        ELSE [ret |-> addr, mem |-> w2.mem, last |-> addr, log |-> log2]

RECURSIVE alloc_scan(_, _, _, _, _, _)
alloc_scan(m, lst, size, f, addr, log) ==
    IF addr < heap.offset + heap.size
    THEN LET r == flashheap_packet_read(m, addr, Len(log) + 1, f)
             log1 == Append(log, RdLog(addr, r.raw))
         IN  IF ~r.ok
             THEN [ret |-> 0, mem |-> m, last |-> lst, log |-> log1]
             ELSE IF alloc_fits(r.size, size)
             THEN alloc_take(m, lst, size, f, addr, r.size, log1)
             ELSE alloc_scan(m, lst, size, f,
                             addr + abs(r.size) + HeaderSize, log1)
    ELSE [ret |-> 0, mem |-> m, last |-> lst, log |-> log]

flashheap_alloc(m, lst, size, f) ==
    alloc_scan(m, lst, size, f, heap.offset, << >>)

(***************************************************************************)
(* flashheap_free                                                          *)
(***************************************************************************)
\* the linear search for the desired packet; size is the header read last
\* (packet.size), prev_size the header of the packet before it
RECURSIVE free_search(_, _, _, _, _, _, _, _)
free_search(m, f, desired, addr, prev_addr, prev_size, size, log) ==
    IF addr < heap.offset + heap.size
    THEN LET r == flashheap_packet_read(m, addr, Len(log) + 1, f)
             log1 == Append(log, RdLog(addr, r.raw))
         IN  IF ~r.ok
             THEN [ok |-> FALSE, addr |-> addr, prev_addr |-> prev_addr,
                   prev_size |-> prev_size, size |-> size, log |-> log1]
             ELSE IF addr = desired
             THEN [ok |-> TRUE, addr |-> addr, prev_addr |-> prev_addr,
                   prev_size |-> prev_size, size |-> r.size, log |-> log1]
             ELSE free_search(m, f, desired,
                              addr + abs(r.size) + HeaderSize,
                              addr, r.size, r.size, log1)
    ELSE [ok |-> TRUE, addr |-> addr, prev_addr |-> prev_addr,
          prev_size |-> prev_size, size |-> size, log |-> log]

\* the header and the address that free writes, from the packet found (at
\* addr, negated header size), its predecessor and its successor
free_coalesce(addr, size, prev_addr, prev_size, next_size) ==
    IF prev_size < 0 /\ next_size < 0
    THEN [size |-> ToSize(size + prev_size + next_size - 2 * HeaderSize),
          addr |-> prev_addr]
    ELSE IF next_size < 0
    THEN [size |-> ToSize(size + next_size - HeaderSize), addr |-> addr]
    ELSE IF prev_size < 0
    THEN [size |-> ToSize(size + prev_size - HeaderSize),
          addr |-> prev_addr]
    ELSE [size |-> size, addr |-> addr]

\* variant: only a free packet that holds payload is rejected
free_is_free_big(size) == size < -1

\* the test that rejects the packet found because it is free already
free_is_free(size) == size < 0

\* variant: the negated header is written to the device before the packet
\* behind it is read
free_release_marking(m, f, desired, s) ==
    IF s.addr # desired
    THEN [ret |-> 0, mem |-> m, log |-> s.log]
    ELSE IF free_is_free(s.size)
    THEN [ret |-> 0, mem |-> m, log |-> s.log]
    ELSE LET size == -s.size
             w0 == ram_msd_write(m, s.addr, size, Len(s.log) + 1, f)
             log0 == Append(s.log, WrLog(s.addr, size, w0))
             next_addr == s.addr + abs(size) + HeaderSize
             nr == flashheap_packet_read(w0.mem, next_addr, Len(log0) + 1, f)
             log1 == Append(log0, RdLog(next_addr, nr.raw))
             c == free_coalesce(s.addr, size, s.prev_addr, s.prev_size,
                                nr.size)
             w == ram_msd_write(w0.mem, c.addr, c.size, Len(log1) + 1, f)
             log2 == Append(log1, WrLog(c.addr, c.size, w))
         IN  IF w0.n # HeaderSize
             THEN [ret |-> 0, mem |-> w0.mem, log |-> log0]
             ELSE IF ~nr.ok
             THEN [ret |-> 0, mem |-> w0.mem, log |-> log1]
             ELSE IF w.n # HeaderSize
             THEN [ret |-> 0, mem |-> w.mem, log |-> log2]
             ELSE [ret |-> 1, mem |-> w.mem, log |-> log2]

\* the part of free after the search
free_release(m, f, desired, s) ==
    IF s.addr # desired
    THEN [ret |-> 0, mem |-> m, log |-> s.log]
    ELSE IF free_is_free(s.size)
    THEN [ret |-> 0, mem |-> m, log |-> s.log]
    ELSE LET size == -s.size
             next_addr == s.addr + abs(size) + HeaderSize
             nr == flashheap_packet_read(m, next_addr, Len(s.log) + 1, f)
             log1 == Append(s.log, RdLog(next_addr, nr.raw))
             c == free_coalesce(s.addr, size, s.prev_addr, s.prev_size,
                                nr.size)
             w == ram_msd_write(m, c.addr, c.size, Len(log1) + 1, f)
             log2 == Append(log1, WrLog(c.addr, c.size, w))
         IN  IF ~nr.ok
             THEN [ret |-> 0, mem |-> m, log |-> log1]
             ELSE IF w.n # HeaderSize
             THEN [ret |-> 0, mem |-> w.mem, log |-> log2]
             ELSE [ret |-> 1, mem |-> w.mem, log |-> log2]

flashheap_free(m, ptr, f) ==
    LET s == free_search(m, f, ptr, heap.offset, 0, 0, 0, << >>)
    IN  IF ~s.ok
        THEN [ret |-> 0, mem |-> m, log |-> s.log]
        ELSE free_release(m, f, ptr, s)

(***************************************************************************)
(* flashheap_walk and the iteration over the allocated packets.  The       *)
(* callback is named by a string; arg is the value its argument points to. *)
(***************************************************************************)
flashheap_alloc_p(addr, size, arg) ==
    [arg |-> addr, stop |-> (size >= 0)]

flashheap_stats_helper(addr, size, arg) ==
    [arg |-> IF size >= 0
             THEN [arg EXCEPT !.alloc_packets = @ + 1,
                              !.alloc_bytes = @ + size]
             ELSE [arg EXCEPT !.free_packets = @ + 1,
                              !.free_bytes = @ - size],
     stop |-> FALSE]

callback(cb, addr, size, arg) ==
    CASE cb = "flashheap_alloc_p" -> flashheap_alloc_p(addr, size, arg)
      [] cb = "flashheap_stats_helper" ->
             flashheap_stats_helper(addr, size, arg)

RECURSIVE flashheap_walk(_, _, _, _, _, _)
flashheap_walk(m, f, addr, cb, arg, log) ==
    IF addr < heap.offset + heap.size
    THEN LET r == flashheap_packet_read(m, addr, Len(log) + 1, f)
             log1 == Append(log, RdLog(addr, r.raw))
             c == callback(cb, addr, r.size, arg)
         IN  IF ~r.ok
             THEN [ret |-> 0, arg |-> arg, log |-> log1]
             ELSE IF c.stop
             THEN [ret |-> 1, arg |-> c.arg, log |-> log1]
             ELSE flashheap_walk(m, f, addr + abs(r.size) + HeaderSize,
                                 cb, c.arg, log1)
    ELSE [ret |-> 0, arg |-> arg, log |-> log]

flashheap_alloc_first(m, f) ==
    LET w == flashheap_walk(m, f, heap.offset, "flashheap_alloc_p", 0, << >>)
    IN  [ret |-> IF w.ret = 1 THEN w.arg ELSE 0, log |-> w.log]

flashheap_alloc_next(m, ptr, f) ==
    IF ptr = 0
    THEN flashheap_alloc_first(m, f)
    ELSE LET r == flashheap_packet_read(m, ptr, 1, f)
             log1 == << RdLog(ptr, r.raw) >>
             addr == ptr + abs(r.size)
             w == flashheap_walk(m, f, addr, "flashheap_alloc_p", addr, log1)
         IN  IF ~r.ok
             THEN [ret |-> 0, log |-> log1]
             ELSE [ret |-> IF w.ret = 1 THEN w.arg ELSE 0, log |-> w.log]

\* variant: the magnitude of the header, whatever its sign
flashheap_alloc_size_abs(m, ptr, f) ==
    LET r == flashheap_packet_read(m, ptr, 1, f)
    IN  [ret |-> IF ~r.ok THEN 0 ELSE abs(r.size),
         log |-> << RdLog(ptr, r.raw) >>]

flashheap_alloc_size(m, ptr, f) ==
    LET r == flashheap_packet_read(m, ptr, 1, f)
    IN  [ret |-> IF ~r.ok THEN 0 ELSE IF r.size < 0 THEN 0 ELSE r.size,
         log |-> << RdLog(ptr, r.raw) >>]

flashheap_stats(m, f) ==
    LET pstats == [alloc_packets |-> 0, free_packets |-> 0,
                   alloc_bytes |-> 0, free_bytes |-> 0]
        w == flashheap_walk(m, f, heap.offset, "flashheap_stats_helper",
                            pstats, << >>)
    IN  [stats |-> w.arg, log |-> w.log]

(***************************************************************************)
(* The packets of the region as a walk from offset sees them.              *)
(***************************************************************************)
\* the packets from addr on, up to the region end or an unreadable header
RECURSIVE PacketsFrom(_, _)
PacketsFrom(m, addr) ==
    IF addr < heap.offset + heap.size
    THEN LET r == flashheap_packet_read(m, addr, 1, 0)
         IN  IF ~r.ok
             THEN << >>
             ELSE << [addr |-> addr, size |-> r.size] >>
                  \o PacketsFrom(m, addr + abs(r.size) + HeaderSize)
    ELSE << >>

Packets(m) == PacketsFrom(m, heap.offset)

\* the address at which the walk from addr stops (-1: unreadable header)
RECURSIVE WalkEnd(_, _)
WalkEnd(m, addr) ==
    IF addr < heap.offset + heap.size
    THEN LET r == flashheap_packet_read(m, addr, 1, 0)
         IN  IF ~r.ok THEN -1
             ELSE WalkEnd(m, addr + abs(r.size) + HeaderSize)
    ELSE addr

(***************************************************************************)
(* The calls.                                                              *)
(***************************************************************************)
NoOp == [name |-> "init", arg |-> 0, ret |-> 0, log |-> << >>]

NoTrip == [step |-> 0, size |-> 0, p |-> 0, ok |-> 0]

\* no call is being stepped through
NoScan == [state |-> "idle"]

Init ==
    /\ heap = [offset |-> HeapOffset, size |-> HeapSize]
    /\ \E b \in FillBytes : mem = [a \in 0 .. RAM_MSD_BYTES - 1 |-> b]
    /\ last = 0
    /\ erased = FALSE
    /\ op = NoOp
    /\ live = {}
    /\ pre = [mem |-> mem, last |-> last, live |-> live]
    /\ calls = 0
    /\ trip = NoTrip
    /\ scan = NoScan

\* what every call records
Called(n) ==
    /\ calls < n
    /\ calls' = calls + 1
    /\ pre' = [mem |-> mem, last |-> last, live |-> live]
    /\ heap' = heap
    /\ scan' = scan

\* Every action is one call; n bounds the number of calls of a behaviour.
Erase(n) ==
    LET r == flashheap_erase(mem, 0)
    IN  /\ Called(n)
        /\ mem' = r.mem
        /\ last' = last
        /\ erased' = (erased \/ r.ret = 1)
        /\ op' = [name |-> "erase", arg |-> 0, ret |-> r.ret, log |-> r.log]
        /\ trip' = IF r.ret = 1 THEN [NoTrip EXCEPT !.step = 1] ELSE NoTrip
        /\ live' = IF r.ret = 1 THEN {} ELSE live

\* alloc of a size of S on a device that faults on a transfer of F
AllocCall(n, S, F) ==
    \E size \in S, f \in F :
        LET r == flashheap_alloc(mem, last, size, f)
        IN  /\ Called(n)
            /\ mem' = r.mem
            /\ last' = r.last
            /\ erased' = erased
            /\ op' = [name |-> "alloc", arg |-> size, ret |-> r.ret,
                      log |-> r.log]
            /\ trip' = IF trip.step = 1
                       THEN [step |-> 2, size |-> size, p |-> r.ret, ok |-> 0]
                       ELSE NoTrip
            /\ live' = IF r.ret = 0 THEN live
                       ELSE {l \in live : l.addr # r.ret}
                                \cup {[addr |-> r.ret, size |-> size]}

\* free of a pointer of P on a device that faults on a transfer of F
FreeCall(n, P, F) ==
    \E ptr \in P, f \in F :
        LET r == flashheap_free(mem, ptr, f)
        IN  /\ Called(n)
            /\ mem' = r.mem
            /\ last' = last
            /\ erased' = erased
            /\ op' = [name |-> "free", arg |-> ptr, ret |-> r.ret,
                      log |-> r.log]
            /\ trip' = IF trip.step = 2 /\ trip.p # 0 /\ ptr = trip.p
                       THEN [trip EXCEPT !.step = 3, !.ok = r.ret]
                       ELSE NoTrip
            /\ live' = IF r.ret = 0 THEN live
                       ELSE {l \in live : l.addr # ptr}

\* the calls on a device that does not fault
Alloc(n) == AllocCall(n, AllocSizes, {0})

Free(n) == FreeCall(n, Ptrs, {0})

AllocFirst(n) ==
    LET r == flashheap_alloc_first(mem, 0)
    IN  /\ Called(n)
        /\ op' = [name |-> "alloc_first", arg |-> 0, ret |-> r.ret,
                  log |-> r.log]
        /\ UNCHANGED << mem, last, erased, trip, live >>

AllocNext(n) ==
    \E ptr \in Ptrs :
        LET r == flashheap_alloc_next(mem, ptr, 0)
        IN  /\ Called(n)
            /\ op' = [name |-> "alloc_next", arg |-> ptr, ret |-> r.ret,
                      log |-> r.log]
            /\ UNCHANGED << mem, last, erased, trip, live >>

AllocSize(n) ==
    \E ptr \in Ptrs :
        LET r == flashheap_alloc_size(mem, ptr, 0)
        IN  /\ Called(n)
            /\ op' = [name |-> "alloc_size", arg |-> ptr, ret |-> r.ret,
                      log |-> r.log]
            /\ UNCHANGED << mem, last, erased, trip, live >>

Stats(n) ==
    LET r == flashheap_stats(mem, 0)
    IN  /\ Called(n)
        /\ op' = [name |-> "stats", arg |-> 0, ret |-> 0, log |-> r.log,
                  stats |-> r.stats]
        /\ UNCHANGED << mem, last, erased, trip, live >>

\* the calls that change the heap
Next ==
    \/ Erase(MaxCalls)
    \/ Alloc(MaxCalls)
    \/ Free(MaxCalls)

Spec == Init /\ [][Next]_vars

\* the calls that change the heap, one call deeper
DeepNext ==
    \/ Erase(MaxDeepCalls)
    \/ Alloc(MaxDeepCalls)
    \/ Free(MaxDeepCalls)

DeepSpec == Init /\ [][DeepNext]_vars

\* the calls that change the heap and the iteration over the allocations
QueryNext ==
    \/ Erase(MaxQueryCalls)
    \/ Alloc(MaxQueryCalls)
    \/ Free(MaxQueryCalls)
    \/ AllocFirst(MaxQueryCalls)
    \/ AllocNext(MaxQueryCalls)

QuerySpec == Init /\ [][QueryNext]_vars

\* the calls that change the heap and the two that report on it
InspectNext ==
    \/ Erase(MaxQueryCalls)
    \/ Alloc(MaxQueryCalls)
    \/ Free(MaxQueryCalls)
    \/ AllocSize(MaxQueryCalls)
    \/ Stats(MaxQueryCalls)

InspectSpec == Init /\ [][InspectNext]_vars

\* the calls on a device that faults on one transfer of the call
Faults == 1 .. MaxFault

AllocFault(n) == AllocCall(n, AllocSizes, Faults)

FreeFault(n) == FreeCall(n, Ptrs, Faults)

FaultNext ==
    \/ Erase(MaxFaultCalls)
    \/ Alloc(MaxFaultCalls)
    \/ Free(MaxFaultCalls)
    \/ AllocFault(MaxFaultCalls)
    \/ FreeFault(MaxFaultCalls)

FaultSpec == Init /\ [][FaultNext]_vars

\* the calls when the device faults during free only
FreeFaultNext ==
    \/ Erase(MaxFreeFaultCalls)
    \/ Alloc(MaxFreeFaultCalls)
    \/ Free(MaxFreeFaultCalls)
    \/ FreeFault(MaxFreeFaultCalls)

FreeFaultSpec == Init /\ [][FreeFaultNext]_vars

\* the heap of the worked example: 100 bytes at 1000, and the sizes and
\* pointers that its calls use
ScenarioInit ==
    /\ heap = [offset |-> 1000, size |-> 100]
    /\ \E b \in FillBytes : mem = [a \in 0 .. RAM_MSD_BYTES - 1 |-> b]
    /\ last = 0
    /\ erased = FALSE
    /\ op = NoOp
    /\ live = {}
    /\ pre = [mem |-> mem, last |-> last, live |-> live]
    /\ calls = 0
    /\ trip = NoTrip
    /\ scan = NoScan

ScenarioSizes == {20, 30}

ScenarioPtrs == {heap.offset, heap.offset + 32, heap.offset + 54}

ScenarioAlloc(n) == AllocCall(n, ScenarioSizes, {0})

ScenarioFree(n) == FreeCall(n, ScenarioPtrs, {0})

ScenarioNext ==
    \/ Erase(MaxCalls)
    \/ ScenarioAlloc(MaxCalls)
    \/ ScenarioFree(MaxCalls)

ScenarioSpec == ScenarioInit /\ [][ScenarioNext]_vars

(***************************************************************************)
(* The loops of alloc, free and walk, one iteration per step, on a region  *)
(* of arbitrary content.                                                   *)
(***************************************************************************)
\* values of a byte of the region
ScanBytes == {0, 128, 255}

ScanInit ==
    /\ heap = [offset |-> HeapOffset, size |-> ScanSize]
    /\ \E b \in FillBytes :
       \E c \in [heap.offset .. (heap.offset + heap.size - 1) -> ScanBytes] :
           mem = [a \in 0 .. RAM_MSD_BYTES - 1 |->
                      IF a \in DOMAIN c THEN c[a] ELSE b]
    /\ last = 0
    /\ erased = FALSE
    /\ op = NoOp
    /\ live = {}
    /\ pre = [mem |-> mem, last |-> last, live |-> live]
    /\ calls = 0
    /\ trip = NoTrip
    /\ scan = NoScan

\* the calls that scan, with the argument of the call and of the callback
ScanCalls ==
    {[call |-> "alloc", arg |-> size, acc |-> 0] : size \in AllocSizes}
    \cup {[call |-> "free", arg |-> ptr, acc |-> 0] : ptr \in Ptrs}
    \cup {[call |-> "alloc_first", arg |-> 0, acc |-> 0]}
    \cup {[call |-> "stats", arg |-> 0,
           acc |-> [alloc_packets |-> 0, free_packets |-> 0,
                    alloc_bytes |-> 0, free_bytes |-> 0]]}

\* the callback that the call hands to flashheap_walk
ScanCallback(call) ==
    IF call = "stats" THEN "flashheap_stats_helper" ELSE "flashheap_alloc_p"

\* entry of the call: addr = heap->offset, prev_addr = 0, prev_packet.size = 0
ScanBegin ==
    /\ scan.state = "idle"
    /\ \E c \in ScanCalls :
           scan' = [state |-> "loop", call |-> c.call, arg |-> c.arg,
                    acc |-> c.acc, addr |-> heap.offset, size |-> 0,
                    prev_addr |-> 0, prev_size |-> 0, ret |-> 0, steps |-> 0]
    /\ pre' = [mem |-> mem, last |-> last, live |-> live]
    /\ UNCHANGED << heap, mem, last, erased, op, calls, trip, live >>

\* the call returns ret
ScanReturn(ret, acc, m, lst) ==
    /\ scan' = [scan EXCEPT !.state = "done", !.ret = ret, !.acc = acc]
    /\ mem' = m
    /\ last' = lst

\* variant: the scan skips the payload only
scan_advance_payload(addr, size) == addr + abs(size)

\* addr += abs (packet.size) + sizeof (packet)
scan_advance(addr, size) == addr + abs(size) + HeaderSize

\* the loop goes round: packet is the header just read
ScanContinue(size, acc) ==
    /\ scan' = [scan EXCEPT !.addr = scan_advance(scan.addr, size),
                            !.size = size, !.prev_addr = scan.addr,
                            !.prev_size = size, !.acc = acc,
                            !.steps = @ + 1]
    /\ UNCHANGED << mem, last >>

\* what free does once its loop is left with packet.size = size
ScanRelease(size) ==
    LET r == free_release(mem, 0, scan.arg,
                          [addr |-> scan.addr, size |-> size,
                           prev_addr |-> scan.prev_addr,
                           prev_size |-> scan.prev_size, log |-> << >>])
    IN  ScanReturn(r.ret, scan.acc, r.mem, last)

\* one evaluation of the loop condition and, if it holds, of the loop body
ScanStep ==
    /\ scan.state = "loop"
    /\ UNCHANGED << heap, erased, op, pre, calls, trip, live >>
    /\ IF scan.addr < heap.offset + heap.size
       THEN LET r == flashheap_packet_read(mem, scan.addr, 1, 0)
            IN  IF ~r.ok
                THEN ScanReturn(0, scan.acc, mem, last)
                ELSE IF scan.call = "alloc"
                THEN IF alloc_fits(r.size, scan.arg)
                     THEN LET t == alloc_take(mem, last, scan.arg, 0,
                                              scan.addr, r.size, << >>)
                          IN  ScanReturn(t.ret, scan.acc, t.mem, t.last)
                     ELSE ScanContinue(r.size, scan.acc)
                ELSE IF scan.call = "free"
                THEN IF scan.addr = scan.arg
                     THEN ScanRelease(r.size)
                     ELSE ScanContinue(r.size, scan.acc)
                ELSE LET c == callback(ScanCallback(scan.call), scan.addr,
                                       r.size, scan.acc)
                     IN  IF c.stop
                         THEN ScanReturn(1, c.arg, mem, last)
                         ELSE ScanContinue(r.size, c.arg)
       ELSE IF scan.call = "free"
            THEN ScanRelease(scan.size)
            ELSE ScanReturn(0, scan.acc, mem, last)

ScanNext ==
    \/ ScanBegin
    \/ ScanStep

\* a call that has been entered keeps executing
ScanSpec == ScanInit /\ [][ScanNext]_vars /\ WF_vars(ScanStep)

(***************************************************************************)
(* Properties.                                                             *)
(***************************************************************************)
\* the walk from offset consumes the region exactly
Tiled(m) == WalkEnd(m, heap.offset) = heap.offset + heap.size

\* no two packets consecutive in the walk from offset are both free
NoAdjacentFree(m) ==
    LET ps == Packets(m)
    IN  \A i \in 1 .. Len(ps) - 1 : ~(ps[i].size < 0 /\ ps[i + 1].size < 0)

\* C1: tiling invariant.  Once an erase has succeeded, after every call the
\* chain of packets that starts at offset ends exactly at offset + size
\* (calls that fail on the device without faults write nothing, so the
\* states after successful calls are all the states).
TilingInv == erased => Tiled(mem)

\* C2: coalescing invariant.  Directly after a successful free no two
\* packets consecutive in the walk from offset are both free.
CoalescingInv ==
    (erased /\ op.name = "free" /\ op.ret = 1) => NoAdjacentFree(mem)

\* the device writes among the transfers of a call
Writes(log) == SelectSeq(log, LAMBDA e : e.op = "write")

\* the index in ps of the packet that starts at addr (0: none)
IndexOf(ps, addr) ==
    IF \E i \in 1 .. Len(ps) : ps[i].addr = addr
    THEN CHOOSE i \in 1 .. Len(ps) : ps[i].addr = addr
    ELSE 0

\* the state of the region after a fresh erase, as the walk sees it
FreshPackets ==
    << [addr |-> heap.offset, size |-> -(heap.size - HeaderSize)] >>

\* C3: round trip.  For size <= region size - 2 * header size, erase then
\* p = alloc(size) then free(p) succeed and leave one free packet at offset
\* of magnitude region size - header size.
RoundTripInv ==
    (trip.size <= heap.size - 2 * HeaderSize) =>
        /\ trip.step = 2 => trip.p # 0
        /\ trip.step = 3 => (trip.ok = 1 /\ Packets(mem) = FreshPackets)

\* C4: split correctness.  When alloc(size) takes a free packet at a of
\* capacity C > size, the packet at a is allocated with length size and the
\* packet at a + header size + size is free with capacity
\* C - size - header size.
SplitInv ==
    (erased /\ op.name = "alloc" /\ op.ret # 0) =>
        LET a == op.ret
            C == -Decode(pre.mem[a], pre.mem[a + 1])
            rest == flashheap_packet_read(mem, a + HeaderSize + op.arg, 1, 0)
        IN  C > op.arg =>
                /\ Decode(mem[a], mem[a + 1]) = op.arg
                /\ rest.ok
                /\ rest.size < 0
                /\ -rest.size = C - op.arg - HeaderSize

\* the header and the address that a free of packet i of ps is to write:
\* neighbours are the packets of the region before and after packet i
MergedHeader(ps, i) ==
    LET L == ps[i].size
        prevFree == i > 1 /\ ps[i - 1].size < 0
        nextFree == i < Len(ps) /\ ps[i + 1].size < 0
        hp == IF i > 1 THEN abs(ps[i - 1].size) ELSE 0
        hn == IF i < Len(ps) THEN abs(ps[i + 1].size) ELSE 0
    IN  IF prevFree /\ nextFree
        THEN [addr |-> ps[i - 1].addr,
              size |-> -(hp + L + hn + 2 * HeaderSize)]
        ELSE IF nextFree
        THEN [addr |-> ps[i].addr, size |-> -(L + hn + HeaderSize)]
        ELSE IF prevFree
        THEN [addr |-> ps[i - 1].addr, size |-> -(hp + L + HeaderSize)]
        ELSE [addr |-> ps[i].addr, size |-> -L]

\* C5: coalescing correctness.  A successful free of an allocated packet
\* writes exactly one header: the free header of the packet merged with its
\* free neighbours, at the address of the first packet merged.
CoalesceInv ==
    (erased /\ op.name = "free" /\ op.ret = 1) =>
        LET ps == Packets(pre.mem)
            i == IndexOf(ps, op.arg)
            ws == Writes(op.log)
        IN  (i # 0 /\ ps[i].size >= 0) =>
                /\ Len(ws) = 1
                /\ ws[1].addr = MergedHeader(ps, i).addr
                /\ ws[1].size = MergedHeader(ps, i).size

\* C6: first fit.  A successful alloc(size) returns the lowest packet
\* address of the walk whose packet is free with capacity >= size, and
\* leaves every byte before that address unchanged.
FirstFitInv ==
    (op.name = "alloc" /\ op.ret # 0) =>
        LET ps == Packets(pre.mem)
            i == IndexOf(ps, op.ret)
        IN  /\ i # 0
            /\ ps[i].size < 0 /\ -ps[i].size >= op.arg
            /\ \A j \in 1 .. i - 1 :
                   ~(ps[j].size < 0 /\ -ps[j].size >= op.arg)
            /\ \A x \in 0 .. op.ret - 1 : mem[x] = pre.mem[x]

\* a smaller free packet lies before the packet a successful alloc took
FirstFitWitness ==
    /\ erased /\ op.name = "alloc" /\ op.ret # 0
    /\ \E j \in 1 .. Len(Packets(pre.mem)) :
           /\ Packets(pre.mem)[j].addr < op.ret
           /\ Packets(pre.mem)[j].size < 0

\* the address of the first allocated packet of ps behind address a (0: none)
NextAllocated(ps, a) ==
    LET S == {i \in 1 .. Len(ps) : ps[i].addr > a /\ ps[i].size >= 0}
    IN  IF S = {} THEN 0
        ELSE ps[CHOOSE i \in S : \A j \in S : i <= j].addr

\* C7: iteration.  alloc_first returns the first allocated packet of the
\* walk, alloc_next(p) of an allocated packet p the next allocated packet
\* behind p, and both return none when there is no such packet.
IterationInv ==
    LET ps == Packets(mem)
    IN  /\ (erased /\ op.name = "alloc_first") =>
               op.ret = NextAllocated(ps, 0)
        /\ (erased /\ op.name = "alloc_next" /\ IndexOf(ps, op.arg) # 0
              /\ ps[IndexOf(ps, op.arg)].size >= 0) =>
               op.ret = NextAllocated(ps, op.arg)

\* C8: not found.  free(a) of an address that starts no packet of the walk
\* returns failure and writes nothing.
NotFoundInv ==
    (erased /\ op.name = "free" /\ IndexOf(Packets(pre.mem), op.arg) = 0) =>
        (op.ret = 0 /\ Writes(op.log) = << >> /\ mem = pre.mem)

\* C9: capacity fault.  alloc(size) when no free packet of the walk has
\* capacity >= size returns none, writes nothing and keeps heap->last.
CapacityInv ==
    (op.name = "alloc"
       /\ \A i \in 1 .. Len(Packets(pre.mem)) :
              ~(Packets(pre.mem)[i].size < 0
                  /\ -Packets(pre.mem)[i].size >= op.arg)) =>
        /\ op.ret = 0
        /\ Writes(op.log) = << >>
        /\ mem = pre.mem
        /\ last = pre.last

\* an alloc failed although the region holds a free packet
CapacityWitness ==
    /\ erased /\ op.name = "alloc" /\ op.ret = 0
    /\ last # 0
    /\ \E i \in 1 .. Len(Packets(pre.mem)) : Packets(pre.mem)[i].size < 0

\* C10: invalid state.  free(a) of a packet of the walk whose header is
\* negative returns failure and writes nothing.
InvalidStateInv ==
    (op.name = "free" /\ IndexOf(Packets(pre.mem), op.arg) # 0
       /\ Packets(pre.mem)[IndexOf(Packets(pre.mem), op.arg)].size < 0) =>
        (op.ret = 0 /\ Writes(op.log) = << >> /\ mem = pre.mem)

\* a packet that had been allocated and released is released once more
InvalidStateWitness ==
    /\ erased /\ op.name = "free" /\ op.ret = 0
    /\ pre.last = op.arg
    /\ IndexOf(Packets(pre.mem), op.arg) # 0
    /\ Packets(pre.mem)[IndexOf(Packets(pre.mem), op.arg)].size < 0

\* a transfer of the call has failed
Faulted(log) == \E i \in 1 .. Len(log) : ~log[i].ok

\* the addresses of the writes of the call that have failed
FailedWrites(log) ==
    {log[i].addr : i \in {j \in 1 .. Len(log) :
                              log[j].op = "write" /\ ~log[j].ok}}

\* the header that the device holds at addr
HeaderAt(m, addr) == Decode(m[addr], m[addr + 1])

\* C11: fault isolation.  When a transfer fails during alloc or free the
\* call returns failure, and every packet header of the walk other than
\* the one the failing write was aimed at holds its value of before.
FaultIsolationInv ==
    (erased /\ op.name \in {"alloc", "free"} /\ Faulted(op.log)) =>
        /\ op.ret = 0
        /\ \A i \in 1 .. Len(Packets(pre.mem)) :
               LET q == Packets(pre.mem)[i]
               IN  q.addr \notin FailedWrites(op.log) =>
                       HeaderAt(mem, q.addr) = q.size

\* the writes of a splitting alloc come in the order remainder, allocation,
\* and a write that fails is the last transfer of the call
SplitOrder(log, size) ==
    LET ws == Writes(log)
    IN  /\ Len(ws) <= 2
        /\ Len(ws) = 2 =>
               /\ ws[1].addr = ws[2].addr + HeaderSize + size
               /\ ws[2].size = size
        /\ \A i \in 1 .. Len(log) : ~log[i].ok => i = Len(log)

\* C15: write ordering of a splitting alloc.  The remainder header is
\* written before the allocated header; when the remainder write fails the
\* allocated header is not written; when the write of the allocated header
\* fails the walk from offset sees the packets of before the call.
WriteOrderInv ==
    (erased /\ op.name = "alloc") =>
        /\ SplitOrder(op.log, op.arg)
        /\ (Len(Writes(op.log)) = 2 /\ ~op.log[Len(op.log)].ok) =>
               Packets(mem) = Packets(pre.mem)

\* the search of free has read the header of an allocated packet at ptr
FoundAllocated(log, ptr) ==
    \E k \in 1 .. Len(log) :
        /\ log[k].op = "read" /\ log[k].ok
        /\ log[k].addr = ptr /\ log[k].size >= 0

\* C16 as stated: free first writes the negated header of the packet it
\* has found to the device and then reads the packet behind it.
MarkFirstInv ==
    (erased /\ op.name = "free" /\ FoundAllocated(op.log, op.arg)) =>
        \E k \in 1 .. Len(op.log) - 1 :
            /\ op.log[k].op = "write" /\ op.log[k].addr = op.arg
            /\ op.log[k + 1].op = "read"

\* C16 (amended): free issues at most one device write, as the last transfer
\* of the call, so a free that fails, at whatever transfer, leaves the
\* device as it was.
SingleWriteInv ==
    (op.name = "free") =>
        /\ Len(Writes(op.log)) <= 1
        /\ \A k \in 1 .. Len(op.log) - 1 : op.log[k].op = "read"
        /\ op.ret = 0 => mem = pre.mem

\* the device has faulted on the write of a free of a live packet that has
\* a free packet behind it
SingleWriteWitness ==
    /\ erased /\ op.name = "free" /\ op.ret = 0
    /\ \E l \in pre.live : l.addr = op.arg
    /\ FoundAllocated(op.log, op.arg)
    /\ op.log[Len(op.log)].op = "write" /\ ~op.log[Len(op.log)].ok
    /\ op.log[Len(op.log) - 1].size < 0

\* C12: alloc_size of the address that the alloc directly before it has
\* returned gives the size asked for, and alloc_size of an address that
\* holds a free header gives 0.
ExactSizeInv ==
    [][/\ (/\ op.name = "alloc" /\ op.ret # 0
           /\ op'.name = "alloc_size" /\ op'.arg = op.ret)
          => op'.ret = op.arg
       /\ (/\ op'.name = "alloc_size" /\ op'.arg # 0
           /\ HeaderAt(mem, op'.arg) < 0)
          => op'.ret = 0]_vars

\* alloc_size has been asked about the latest allocation, of a positive
\* size, while it is live
ExactSizeWitness ==
    /\ erased /\ op.name = "alloc_size" /\ op.arg = last /\ op.ret > 0
    /\ \E l \in live : l.addr = op.arg /\ l.size = op.ret

\* the sum of f over the packets of a walk with the given sign
RECURSIVE SumOver(_, _, _)
SumOver(ps, allocated, each) ==
    IF ps = << >> THEN 0
    ELSE (IF (Head(ps).size >= 0) = allocated
          THEN (IF each THEN 1 ELSE abs(Head(ps).size))
          ELSE 0) + SumOver(Tail(ps), allocated, each)

\* C13: stats visits the packets of the walk once each, counts and sums
\* them by sign, and once the heap is erased the bytes and the headers add
\* up to the region size.
StatsInv ==
    (op.name = "stats") =>
        LET ps == Packets(mem)
            st == op.stats
        IN  /\ Len(op.log) = Len(ps)
            /\ \A i \in 1 .. Len(ps) : op.log[i].addr = ps[i].addr
            /\ st.alloc_packets = SumOver(ps, TRUE, TRUE)
            /\ st.alloc_bytes = SumOver(ps, TRUE, FALSE)
            /\ st.free_packets = SumOver(ps, FALSE, TRUE)
            /\ st.free_bytes = SumOver(ps, FALSE, FALSE)
            /\ erased =>
                   st.alloc_bytes + st.free_bytes
                   + HeaderSize * (st.alloc_packets + st.free_packets)
                   = heap.size

\* the packets of the walk from offset whose header or payload holds a
Covering(m, a) ==
    {i \in 1 .. Len(Packets(m)) :
        /\ Packets(m)[i].addr <= a
        /\ a < Packets(m)[i].addr + HeaderSize + abs(Packets(m)[i].size)}

\* C17: after a successful free of a live allocation the packet of the walk
\* that covers its address is free, and a second free of it fails.
FreeMarksInv ==
    (/\ erased /\ op.name = "free" /\ op.ret = 1
     /\ \E l \in pre.live : l.addr = op.arg) =>
        /\ \E i \in Covering(mem, op.arg) : Packets(mem)[i].size < 0
        /\ flashheap_free(mem, op.arg, 0).ret = 0

\* C18: every transfer of alloc and free on an erased heap lies inside the
\* region.
ConfinementInv ==
    (erased /\ op.name \in {"alloc", "free"}) =>
        \A k \in 1 .. Len(op.log) :
            /\ heap.offset <= op.log[k].addr
            /\ op.log[k].addr + HeaderSize <= heap.offset + heap.size

\* the bytes of the header and the payload of a live allocation
Extent(l) == l.addr .. (l.addr + HeaderSize + l.size - 1)

\* C19: alloc and free of another address write no byte of a live
\* allocation, its size stays what it was, and live allocations are
\* disjoint.
UndisturbedInv ==
    (erased /\ op.name \in {"alloc", "free"}) =>
        /\ \A l \in pre.live :
               (op.name = "free" => l.addr # op.arg) =>
                   /\ \A k \in 1 .. Len(op.log) :
                          (op.log[k].op = "write" /\ op.log[k].ok) =>
                              Extent(l) \cap (op.log[k].addr ..
                                  (op.log[k].addr + HeaderSize - 1)) = {}
                   /\ flashheap_alloc_size(mem, l.addr, 0).ret = l.size
        /\ \A l1, l2 \in live :
               l1 # l2 => Extent(l1) \cap Extent(l2) = {}

\* a packet of a walk
Pk(a, n) == [addr |-> a, size |-> n]

\* the call named, with the argument given, on a heap whose walk is ps
Calls(name, arg, ps) ==
    /\ op'.name = name /\ op'.arg = arg
    /\ Packets(mem) = ps

\* C14: on the region of 100 bytes at 1000, erase leaves free(98); from
\* there alloc(30) returns 1000 and leaves allocated(30), free(66); then
\* alloc(20) returns 1032 and leaves allocated(20) at 1032 and free(44) at
\* 1054; then free(1000) leaves free(30) unmerged; then free(1032) merges
\* the three packets into free(98) at 1000 again.
ScenarioInv ==
    [][/\ (op'.name = "erase") =>
              /\ op'.ret = 1
              /\ Packets(mem') = << Pk(1000, -98) >>
       /\ Calls("alloc", 30, << Pk(1000, -98) >>) =>
              /\ op'.ret = 1000
              /\ Packets(mem') = << Pk(1000, 30), Pk(1032, -66) >>
       /\ Calls("alloc", 20, << Pk(1000, 30), Pk(1032, -66) >>) =>
              /\ op'.ret = 1032
              /\ Packets(mem') =
                     << Pk(1000, 30), Pk(1032, 20), Pk(1054, -44) >>
       /\ Calls("free", 1000,
                << Pk(1000, 30), Pk(1032, 20), Pk(1054, -44) >>) =>
              /\ op'.ret = 1
              /\ Packets(mem') =
                     << Pk(1000, -30), Pk(1032, 20), Pk(1054, -44) >>
       /\ Calls("free", 1032,
                << Pk(1000, -30), Pk(1032, 20), Pk(1054, -44) >>) =>
              /\ op'.ret = 1
              /\ Packets(mem') = << Pk(1000, -98) >>]_vars

\* the last call of the example has merged the three packets
ScenarioWitness ==
    /\ op.name = "free" /\ op.arg = 1032 /\ op.ret = 1
    /\ Packets(pre.mem) = << Pk(1000, -30), Pk(1032, 20), Pk(1054, -44) >>
    /\ Packets(mem) = << Pk(1000, -98) >>
    /\ calls = 5

\* C20: whatever the region holds, a call of alloc, free, alloc_first or
\* stats that has entered its loop returns, and each iteration that does
\* not return moves the scan address up by at least one header.
TerminationInv ==
    /\ [][(scan.state = "loop" /\ scan'.state = "loop") =>
              scan'.addr >= scan.addr + HeaderSize]_vars
    /\ (scan.state = "loop") ~> (scan.state = "done")

\* a scan over content that does not tile the region has gone round the
\* loop twice and has returned with the address beyond the region end
TerminationWitness ==
    /\ scan.state = "done" /\ scan.steps >= 2
    /\ scan.addr > heap.offset + heap.size
    /\ WalkEnd(pre.mem, heap.offset) # heap.offset + heap.size

=============================================================================
